---- MODULE Spec2Model ----
(***************************************************************************)
(* Model of package awsranges (src/ranges.go): the loader New and the      *)
(* three queries CheckAddress, CheckCIDR and CheckServices.                *)
(*                                                                         *)
(* Strings that the code inspects character by character (addresses and    *)
(* CIDR texts) are sequences of one-character strings.  The alphabet of    *)
(* the inputs holds digits, '.', '/', letters and '-', and no ':' or '%':  *)
(* on that alphabet net.ParseIP and net.ParseCIDR are the IPv4 parsers of  *)
(* the Go standard library, which are modelled character by character.     *)
(* Parsed addresses are kept in their 4-byte form (what IP.To4 returns).   *)
(* Region and service are opaque and are TLA+ strings.                     *)
(*                                                                         *)
(* The file system is taken to be reliable (WriteFile, Open and ReadAll on *)
(* the cache file succeed, user.Current succeeds); the network is not.     *)
(*                                                                         *)
(* New is not atomic: an invocation waits on the network between its look  *)
(* at the cache file and its write, WriteFile truncates the file before it *)
(* writes, and readFromCache opens the file and reads it in several calls. *)
(* Spec runs the invocations of several processes on one cache file, one   *)
(* system call at a time.  The queries are pure functions of a      *)
(* catalog and a query string; QuerySpec applies them to every catalog New *)
(* can return from a document of the bounded set.                          *)
(***************************************************************************)
EXTENDS Integers, Sequences, FiniteSets, TLC

VARIABLES cache, pc, data, ranges, last, seen, intact, catalog, out

vars == <<cache, pc, data, ranges, last, seen, intact, catalog, out>>

(***************************************************************************)
(* Bounds                                                                  *)
(***************************************************************************)
\* Longest prefix array of a remote document.
MaxCatalog == 2

(***************************************************************************)
(* Characters and the standard library's parsers                           *)
(***************************************************************************)
DigitChars == <<"0", "1", "2", "3", "4", "5", "6", "7", "8", "9">>

IsDigit(c) == \E k \in 1..10 : DigitChars[k] = c

DigitVal(c) == (CHOOSE k \in 1..10 : DigitChars[k] = c) - 1

\* bytealg.IndexByteString(s, c), 1-based; 0 when c does not occur (Go: -1).
IndexByte(s, c) ==
    IF \E k \in 1..Len(s) : s[k] = c
    THEN CHOOSE k \in 1..Len(s) : s[k] = c /\ \A j \in 1..(k - 1) : s[j] # c
    ELSE 0

\* strings.Contains(s, "/")
ContainsSlash(s) == IndexByte(s, "/") # 0

\* net.dtoi's overflow limit (0xFFFFFF).
Big == 16777215

\* net.dtoi(s): the leading decimal digits of s as [n, i, ok], i the number of
\* characters consumed.
RECURSIVE dtoiLoop(_, _, _)
dtoiLoop(s, i, n) ==
    IF i < Len(s) /\ IsDigit(s[i + 1])
    THEN LET n2 == n * 10 + DigitVal(s[i + 1])
         IN  IF n2 >= Big
             THEN [n |-> Big, i |-> i, ok |-> FALSE]
             ELSE dtoiLoop(s, i + 1, n2)
    ELSE IF i = 0
         THEN [n |-> 0, i |-> 0, ok |-> FALSE]
         ELSE [n |-> n, i |-> i, ok |-> TRUE]

dtoi(s) == dtoiLoop(s, 0, 0)

\* A nil net.IP.
NilIP == <<>>

\* netip.parseIPv4Fields: the scan over the characters of s; fields holds the
\* octets closed by a '.', so that pos = Len(fields).  NilIP on any error.
RECURSIVE parseIPv4Fields(_, _, _, _, _)
parseIPv4Fields(s, i, val, digLen, fields) ==
    IF i > Len(s)
    THEN IF Len(fields) < 3 THEN NilIP ELSE Append(fields, val)
    ELSE IF IsDigit(s[i])
         THEN IF digLen = 1 /\ val = 0
              THEN NilIP
              ELSE LET v == val * 10 + DigitVal(s[i])
                   IN  IF v > 255
                       THEN NilIP
                       ELSE parseIPv4Fields(s, i + 1, v, digLen + 1, fields)
         ELSE IF s[i] = "."
              THEN IF i = 1 \/ i = Len(s) \/ s[i - 1] = "."
                   THEN NilIP
                   ELSE IF Len(fields) = 3
                        THEN NilIP
                        ELSE parseIPv4Fields(s, i + 1, 0, 0, Append(fields, val))
              ELSE NilIP

\* net.ParseIP(s): the 4 octets of s, or NilIP.  A text without '.' is no
\* address (the alphabet has no ':').
ParseIP(s) ==
    IF IndexByte(s, ".") = 0 THEN NilIP ELSE parseIPv4Fields(s, 1, 0, 0, <<>>)

\* x & y on bytes.
RECURSIVE AndByte(_, _)
AndByte(x, y) ==
    IF x = 0 \/ y = 0
    THEN 0
    ELSE (x % 2) * (y % 2) + 2 * AndByte(x \div 2, y \div 2)

\* ^byte(0xff >> n) for 0 <= n < 8.
PartialMaskByte(n) == 255 - (255 \div (2 ^ n))

\* net.CIDRMask(ones, 32): ones 1-bits followed by 0-bits, as 4 bytes.
CIDRMask(ones) ==
    [k \in 1..4 |->
        LET n == ones - 8 * (k - 1)
        IN  IF n >= 8 THEN 255 ELSE IF n <= 0 THEN 0 ELSE PartialMaskByte(n)]

\* IP.Mask(mask)
MaskIP(ip, mask) == [k \in 1..4 |-> AndByte(ip[k], mask[k])]

\* A nil *net.IPNet.
NilIPNet == [IP |-> <<>>, Mask |-> <<>>]

\* net.ParseCIDR(s): [ip, network, err]; ip is the address as written, network
\* the masked address with its mask.  On an error ip and network are nil.
ParseCIDR(s) ==
    LET i    == IndexByte(s, "/")
        bad  == [ip |-> NilIP, network |-> NilIPNet, err |-> TRUE]
    IN  IF i = 0
        THEN bad
        ELSE LET addr == SubSeq(s, 1, i - 1)
                 mask == SubSeq(s, i + 1, Len(s))
                 ip   == ParseIP(addr)
                 d    == dtoi(mask)
             IN  IF ip = NilIP
                 THEN bad
                 ELSE IF ~d.ok \/ d.i # Len(mask) \/ d.n < 0 \/ d.n > 32
                      THEN bad
                      ELSE LET m == CIDRMask(d.n)
                           IN  [ip |-> ip,
                                network |-> [IP |-> MaskIP(ip, m), Mask |-> m],
                                err |-> FALSE]

\* Contains without the mask: only the network's own address is inside.
ContainsUnmasked(network, ip) == ip = network.IP

\* (*IPNet).Contains(ip) for a non-nil receiver: a nil ip has length 0 and is
\* not contained; otherwise the masked bytes are compared.
Contains(network, ip) ==
    IF Len(ip) # Len(network.IP)
    THEN FALSE
    ELSE \A k \in 1..Len(ip) :
            AndByte(network.IP[k], network.Mask[k]) = AndByte(ip[k], network.Mask[k])

(***************************************************************************)
(* The queries (src/ranges.go, 36-122)                                     *)
(***************************************************************************)
\* What a query returns: status is "ok" (nil error), "error" (a non-nil error)
\* or "panic" (a run-time panic: nil pointer dereference, index out of range).
\* bool is the result of CheckAddress and CheckCIDR; Region and Services are
\* the ServicesResponse of CheckServices.
BoolResult(b) == [status |-> "ok", bool |-> b, Region |-> "", Services |-> <<>>]

Panic == [status |-> "panic", bool |-> FALSE, Region |-> "", Services |-> <<>>]

\* return &ServicesResponse{}, parseIPError
ParseErrorResult == [status |-> "error", bool |-> FALSE, Region |-> "", Services |-> <<>>]

ServicesResult(region, services) ==
    [status |-> "ok", bool |-> FALSE, Region |-> region, Services |-> services]

\* CheckAddress from record k on.  The error of ParseCIDR is discarded, and
\* Contains on the nil network of a malformed record dereferences nil.
RECURSIVE CheckAddressFrom(_, _, _)
CheckAddressFrom(Prefixes, address, k) ==
    IF k > Len(Prefixes)
    THEN BoolResult(FALSE)
    ELSE LET network == ParseCIDR(Prefixes[k].IP).network
         IN  IF network = NilIPNet
             THEN Panic
             ELSE IF Contains(network, ParseIP(address))
                  THEN BoolResult(TRUE)
                  ELSE CheckAddressFrom(Prefixes, address, k + 1)

CheckAddress(Prefixes, address) == CheckAddressFrom(Prefixes, address, 1)

\* cidrFirstDigit != prefix.IP[0]
FirstCharDiffers(cidr, prefixIP) == cidr[1] # prefixIP[1]

\* CheckCIDR's loop from record k on; cidr is not empty.  prefix.IP[0] of an
\* empty IP is an index out of range.
RECURSIVE CheckCIDRFrom(_, _, _)
CheckCIDRFrom(Prefixes, cidr, k) ==
    IF k > Len(Prefixes)
    THEN BoolResult(FALSE)
    ELSE LET prefix == Prefixes[k]
         IN  IF Len(prefix.IP) = 0
             THEN Panic
             ELSE IF FirstCharDiffers(cidr, prefix.IP)
                  THEN CheckCIDRFrom(Prefixes, cidr, k + 1)
                  ELSE IF prefix.IP = cidr
                       THEN BoolResult(TRUE)
                       ELSE LET ip            == ParseCIDR(cidr).ip
                                prefixNetwork == ParseCIDR(prefix.IP).network
                            IN  IF prefixNetwork = NilIPNet
                                THEN Panic
                                ELSE IF Contains(prefixNetwork, ip)
                                     THEN BoolResult(TRUE)
                                     ELSE CheckCIDRFrom(Prefixes, cidr, k + 1)

\* cidr[0] of the empty string is an index out of range, before the loop.
CheckCIDR(Prefixes, cidr) ==
    IF Len(cidr) = 0 THEN Panic ELSE CheckCIDRFrom(Prefixes, cidr, 1)

\* var answer Prefix
ZeroPrefix == [IP |-> <<>>, Region |-> "", Service |-> ""]

\* reflect.DeepEqual(prefixNetwork.Mask, addressNet.Mask)
MaskEqualAlways(m1, m2) == TRUE

MaskEqual(m1, m2) == m1 = m2

\* The return statements after CheckServices's loop.
ServicesAnswer(answer, services) ==
    IF answer.Service # ""
    THEN IF Len(services) > 1
         THEN ServicesResult(answer.Region, services)
         ELSE ServicesResult(answer.Region, <<answer.Service>>)
    ELSE ServicesResult("", <<>>)

\* CheckServices's loop from record k on.  addressNet is NilIPNet for a query
\* without '/'.
RECURSIVE CheckServicesFrom(_, _, _, _, _, _, _)
CheckServicesFrom(Prefixes, address, addressIP, addressNet, k, answer, services) ==
    IF k > Len(Prefixes)
    THEN ServicesAnswer(answer, services)
    ELSE LET prefix == Prefixes[k]
             parsed == ParseCIDR(prefix.IP)
         IN  IF parsed.err
             THEN ParseErrorResult
             ELSE IF addressNet # NilIPNet /\ ~MaskEqual(parsed.network.Mask, addressNet.Mask)
                  THEN CheckServicesFrom(Prefixes, address, addressIP, addressNet,
                                         k + 1, answer, services)
                  ELSE IF address = prefix.IP \/ Contains(parsed.network, addressIP)
                       THEN CheckServicesFrom(Prefixes, address, addressIP, addressNet,
                                              k + 1, prefix, Append(services, prefix.Service))
                       ELSE CheckServicesFrom(Prefixes, address, addressIP, addressNet,
                                              k + 1, answer, services)

CheckServices(Prefixes, address) ==
    IF ContainsSlash(address)
    THEN LET parsed == ParseCIDR(address)
         IN  IF parsed.err
             THEN ParseErrorResult
             ELSE CheckServicesFrom(Prefixes, address, parsed.ip, parsed.network,
                                    1, ZeroPrefix, <<>>)
    ELSE CheckServicesFrom(Prefixes, address, ParseIP(address), NilIPNet,
                           1, ZeroPrefix, <<>>)

(***************************************************************************)
(* The loader New (src/ranges.go, 124-203)                                 *)
(***************************************************************************)
\* The bytes of a file or body are kept as what they spell, with their number:
\* syntax "json" is the JSON object {"prefixes":[...]} whose array is prefixes
\* (each entry a JSON object, given by its members), tag telling documents
\* with equal prefix arrays apart; any other syntax is not JSON.  NoFile is the
\* absent cache file, and the data of an invocation that has read nothing.
NoFile == [syntax |-> "absent", tag |-> "", prefixes |-> <<>>, size |-> 0]

\* The cache file as os.OpenFile(O_WRONLY|O_CREATE|O_TRUNC) leaves it: present,
\* without a byte.
EmptyFile == [syntax |-> "empty", tag |-> "", prefixes |-> <<>>, size |-> 0]

\* len() of the region and service strings of the inputs.
StrLen(s) ==
    CASE s = "" -> 0
      [] s = "S3" -> 2
      [] s = "EC2" -> 3
      [] s = "GLOBAL" -> 6
      [] s = "AMAZON" -> 6
      [] s = "us-east-1" -> 9
      [] s = "us-west-2" -> 9
      [] s = "eu-west-1" -> 9
      [] s = "CLOUDFRONT" -> 10
      [] s = "ap-northeast-2" -> 14

\* The bytes of the member "key":"value" of an entry, with the separator
\* before it ('{' or ',').
MemberSize(entry, key) ==
    CASE key = "ip_prefix" -> 9 + Len(entry[key]) + 6
      [] key = "region" -> 6 + StrLen(entry[key]) + 6
      [] key = "service" -> 7 + StrLen(entry[key]) + 6
      [] key = "network_border_group" -> 20 + StrLen(entry[key]) + 6

RECURSIVE SumMembers(_, _)
SumMembers(entry, keys) ==
    IF keys = {}
    THEN 0
    ELSE LET key == CHOOSE k \in keys : TRUE
         IN  MemberSize(entry, key) + SumMembers(entry, keys \ {key})

\* The bytes of one entry {"k":"v",...}: its members and the closing '}'.
EntrySize(entry) == SumMembers(entry, DOMAIN entry) + 1

RECURSIVE SumEntries(_, _)
SumEntries(entries, k) ==
    IF k > Len(entries)
    THEN 0
    ELSE EntrySize(entries[k]) + SumEntries(entries, k + 1)

\* The bytes of {"prefixes":[e1,...,en]}.
DocumentSize(entries) ==
    15 + SumEntries(entries, 1) + (IF Len(entries) > 1 THEN Len(entries) - 1 ELSE 0)

\* The catalog document with the prefix array entries.
Document(entries) ==
    [syntax |-> "json", tag |-> "ip-ranges", prefixes |-> entries,
     size |-> DocumentSize(entries)]

\* Prefix's fields decoded from one entry: IP from "ip_prefix", Region from
\* "region", Service from "service"; a missing member leaves the zero value and
\* any other member is dropped.
DecodePrefix(entry) ==
    [IP      |-> IF "ip_prefix" \in DOMAIN entry THEN entry["ip_prefix"] ELSE <<>>,
     Region  |-> IF "region" \in DOMAIN entry THEN entry["region"] ELSE "",
     Service |-> IF "service" \in DOMAIN entry THEN entry["service"] ELSE ""]

\* json.Unmarshal(data, &ranges)
Unmarshal(bytes) ==
    IF bytes.syntax # "json"
    THEN [err |-> TRUE, Prefixes |-> <<>>]
    ELSE [err |-> FALSE,
          Prefixes |-> [k \in 1..Len(bytes.prefixes) |-> DecodePrefix(bytes.prefixes[k])]]

\* fileExists(cachedFile)
fileExistsNever(file) == FALSE

fileExists(file) == file # NoFile

\* One document followed by the tail of another, size bytes in all: not JSON.
\* Only the length of such bytes is kept.
Spliced(size) ==
    [syntax |-> "mixed", tag |-> "spliced", prefixes |-> <<>>, size |-> size]

\* The bytes ioutil.ReadAll holds after one more read of the file, which
\* returns the bytes of the file beyond those already read (every document of
\* the inputs is shorter than ReadAll's first buffer of 512 bytes, so that one
\* read returns them all).  Bytes read after others come from what another
\* process has written since.
ReadBytes(buffer, file) ==
    IF buffer.size = 0 THEN file ELSE Spliced(file.size)

\* The read returns no byte: ReadAll ends.
EndOfFile(buffer, file) == file.size <= buffer.size

\* The write of ioutil.WriteFile(cachedFile, bytes, 0644), at offset 0 of the
\* file opened earlier: the file's new content.  Bytes that another process
\* wrote since this one truncated the file stay behind the written ones when
\* they were more.
WriteFile(bytes, file) ==
    IF file.size > bytes.size THEN Spliced(file.size) ELSE bytes

\* A *Ranges: nil after a failed New.
NilRanges == [loaded |-> FALSE, Prefixes |-> <<>>]

\* What New returns for the bytes it went on to parse.
RangesOf(bytes) ==
    LET u == Unmarshal(bytes)
    IN  IF u.err THEN NilRanges ELSE [loaded |-> TRUE, Prefixes |-> u.Prefixes]

\* The record of an invocation of New: whether it used the cache file, the GET
\* requests it issued, the response's status, the bytes it went on to parse
\* and how it ended ("pending" while it runs).
NewRecord(useCache, gets, status, bytes, err) ==
    [op |-> "New", useCache |-> useCache, gets |-> gets, status |-> status,
     data |-> bytes, err |-> err]

ParseOutcome(bytes) == IF Unmarshal(bytes).err THEN "json" ELSE "none"

(***************************************************************************)
(* Inputs                                                                  *)
(***************************************************************************)
\* "13.32.0.0/15"
Net13_15 == <<"1", "3", ".", "3", "2", ".", "0", ".", "0", "/", "1", "5">>

\* "13.32.0.0/16"
Net13_16 == <<"1", "3", ".", "3", "2", ".", "0", ".", "0", "/", "1", "6">>

\* "13.32.0.0/8"
Net13_8 == <<"1", "3", ".", "3", "2", ".", "0", ".", "0", "/", "8">>

\* "3.5.140.0/22"
Net3_22 == <<"3", ".", "5", ".", "1", "4", "0", ".", "0", "/", "2", "2">>

\* "16.0.0.0/4"
Net16_4 == <<"1", "6", ".", "0", ".", "0", ".", "0", "/", "4">>

\* "20.0.0.0/8"
Net20_8 == <<"2", "0", ".", "0", ".", "0", ".", "0", "/", "8">>

\* "1x/8"
NetBad == <<"1", "x", "/", "8">>

\* "13.32.1.1"
Addr13 == <<"1", "3", ".", "3", "2", ".", "1", ".", "1">>

\* "13.34.0.1"
Addr13Hi == <<"1", "3", ".", "3", "4", ".", "0", ".", "1">>

\* "3.5.140.1"
Addr3 == <<"3", ".", "5", ".", "1", "4", "0", ".", "1">>

\* "8.8.8.8"
Addr8 == <<"8", ".", "8", ".", "8", ".", "8">>

\* "20.1.2.3"
Addr20 == <<"2", "0", ".", "1", ".", "2", ".", "3">>

\* "not-an-ip"
NotAnIP == <<"n", "o", "t", "-", "a", "n", "-", "i", "p">>

\* The empty string.
Empty == <<>>

\* Entries of a remote document's "prefixes" array.
EntryPool ==
    { [ip_prefix |-> Net13_15, region |-> "GLOBAL", service |-> "CLOUDFRONT"],
      [ip_prefix |-> Net13_15, region |-> "us-east-1", service |-> "AMAZON",
       network_border_group |-> "us-east-1"],
      [ip_prefix |-> Net3_22, region |-> "ap-northeast-2", service |-> "EC2"],
      [ip_prefix |-> Net16_4, region |-> "us-west-2", service |-> "EC2"],
      [ip_prefix |-> NetBad, region |-> "eu-west-1", service |-> "S3"],
      [ip_prefix |-> Net13_15, region |-> "GLOBAL"],
      [region |-> "GLOBAL", service |-> "AMAZON"] }

\* The prefix arrays of at most MaxCatalog entries.
EntrySeqs == UNION { [1..n -> EntryPool] : n \in 0..MaxCatalog }

\* The catalogs New returns for the documents with these prefix arrays.
Catalogs == { Unmarshal(Document(es)).Prefixes : es \in EntrySeqs }

\* The entries of the documents the remote serves while invocations run side
\* by side.
ServedEntryPool ==
    { [ip_prefix |-> Net13_15, region |-> "GLOBAL", service |-> "CLOUDFRONT"],
      [ip_prefix |-> Net3_22, region |-> "ap-northeast-2", service |-> "EC2",
       network_border_group |-> "ap-northeast-2"] }

ServedEntrySeqs == UNION { [1..n -> ServedEntryPool] : n \in 0..MaxCatalog }

\* The bodies the remote may send: catalog documents, the JSON error object
\* {"message":"Forbidden"} and the HTML error page
\* <html><body>404 Not Found</body></html>.
ErrorObject == [syntax |-> "json", tag |-> "error-object", prefixes |-> <<>>, size |-> 23]

ErrorPage == [syntax |-> "html", tag |-> "error-page", prefixes |-> <<>>, size |-> 39]

Bodies == { Document(es) : es \in ServedEntrySeqs } \cup {ErrorObject, ErrorPage}

\* What Client.Get may come back with: a transport error, or a response.
Responses ==
    { [kind |-> "transport-error", status |-> 0, body |-> NoFile] }
    \cup { [kind |-> "response", status |-> 200, body |-> b] : b \in Bodies }
    \cup { [kind |-> "response", status |-> 404, body |-> ErrorPage],
           [kind |-> "response", status |-> 403, body |-> ErrorObject] }

\* The processes that call New on the one cache file.
Processes == {"A", "B"}

\* The query strings.
Queries ==
    { Addr13, Addr13Hi, Addr3, Addr8, Addr20,
      Net13_15, Net13_16, Net13_8, Net3_22, Net20_8,
      NotAnIP, NetBad, Empty }

(***************************************************************************)
(* The state machine                                                       *)
(***************************************************************************)
\* cache: the cache file.  Per process: pc, where its invocation of New stands
\* ("idle": none runs; "get": the file was not there and the GET is under way;
\* "write": the body is read and the file opened, truncated; "open": the file
\* was there; "read": it is open and ReadAll reads it); data: the body or the
\* bytes read that it holds; ranges: what its last New returned; last: the
\* record of its last New.  History of the last invocation of each process:
\* seen, the cache file as its os.Stat found it, and intact, whether no other
\* process has truncated or written the file since, up to the invocation's
\* end.  catalog: the Prefixes the queries scan; out: the last query and what
\* it returned.
NoQuery ==
    [op |-> "none", arg |-> <<>>, Prefixes |-> <<>>,
     status |-> "ok", bool |-> FALSE, Region |-> "", Services |-> <<>>]

QueryRecord(op, arg, Prefixes, r) ==
    [op |-> op, arg |-> arg, Prefixes |-> Prefixes,
     status |-> r.status, bool |-> r.bool, Region |-> r.Region, Services |-> r.Services]

NoInvocation ==
    [op |-> "none", useCache |-> FALSE, gets |-> 0, status |-> 0,
     data |-> NoFile, err |-> "none"]

LoaderInit ==
    /\ cache = NoFile
    /\ pc = [p \in Processes |-> "idle"]
    /\ data = [p \in Processes |-> NoFile]
    /\ ranges = [p \in Processes |-> NilRanges]
    /\ last = [p \in Processes |-> NoInvocation]
    /\ seen = [p \in Processes |-> NoFile]
    /\ intact = [p \in Processes |-> TRUE]

Init ==
    /\ LoaderInit
    /\ catalog = <<>>
    /\ out = NoQuery

\* The file is truncated or written by process w: the invocations of the
\* others that are under way have not seen it intact.
Disturbed(w) ==
    [r \in Processes |-> IF r # w /\ pc[r] # "idle" THEN FALSE ELSE intact[r]]

\* New up to fileExists (125-132, 187-193): os.Stat looks for the cache file.
\* With the file there the invocation goes on to read it; without it, the GET
\* is issued (134-145).
NewBegin(p) ==
    /\ pc[p] = "idle"
    /\ seen' = [seen EXCEPT ![p] = cache]
    /\ intact' = [intact EXCEPT ![p] = TRUE]
    /\ ranges' = [ranges EXCEPT ![p] = NilRanges]
    /\ IF fileExists(cache)
       THEN /\ pc' = [pc EXCEPT ![p] = "open"]
            /\ last' = [last EXCEPT ![p] = NewRecord(TRUE, 0, 0, NoFile, "pending")]
       ELSE /\ pc' = [pc EXCEPT ![p] = "get"]
            /\ last' = [last EXCEPT ![p] = NewRecord(FALSE, 1, 0, NoFile, "pending")]
    /\ UNCHANGED <<cache, data, catalog, out>>

\* readFromCache's os.Open (196): the file is open at offset 0, nothing read.
readFromCacheOpen(p) ==
    /\ pc[p] = "open"
    /\ pc' = [pc EXCEPT ![p] = "read"]
    /\ data' = [data EXCEPT ![p] = EmptyFile]
    /\ UNCHANGED <<cache, ranges, last, seen, intact, catalog, out>>

\* One read of readFromCache's ioutil.ReadAll (202).  A read that returns
\* bytes is followed by another; the read that returns none ends ReadAll, and
\* New parses the bytes read and returns (161-165).
readFromCacheRead(p) ==
    /\ pc[p] = "read"
    /\ IF EndOfFile(data[p], cache)
       THEN /\ last' = [last EXCEPT ![p] =
                           NewRecord(TRUE, 0, 0, data[p], ParseOutcome(data[p]))]
            /\ ranges' = [ranges EXCEPT ![p] = RangesOf(data[p])]
            /\ pc' = [pc EXCEPT ![p] = "idle"]
            /\ data' = [data EXCEPT ![p] = NoFile]
       ELSE /\ data' = [data EXCEPT ![p] = ReadBytes(data[p], cache)]
            /\ UNCHANGED <<pc, ranges, last>>
    /\ UNCHANGED <<cache, seen, intact, catalog, out>>

\* The GET comes back (145-155): a transport error ends the invocation; else
\* the body is read and WriteFile opens the cache file, truncating it.
NewResponse(p) ==
    /\ pc[p] = "get"
    /\ \E resp \in Responses :
        IF resp.kind = "transport-error"
        THEN /\ pc' = [pc EXCEPT ![p] = "idle"]
             /\ last' = [last EXCEPT ![p] = NewRecord(FALSE, 1, 0, NoFile, "transport")]
             /\ UNCHANGED <<cache, data, intact>>
        ELSE /\ pc' = [pc EXCEPT ![p] = "write"]
             /\ data' = [data EXCEPT ![p] = resp.body]
             /\ last' = [last EXCEPT ![p] =
                            NewRecord(FALSE, 1, resp.status, NoFile, "pending")]
             /\ cache' = EmptyFile
             /\ intact' = Disturbed(p)
    /\ UNCHANGED <<ranges, seen, catalog, out>>

\* WriteFile writes the body, and New parses it and returns (155-165).
NewWriteFile(p) ==
    /\ pc[p] = "write"
    /\ cache' = WriteFile(data[p], cache)
    /\ intact' = Disturbed(p)
    /\ last' = [last EXCEPT ![p] =
                   NewRecord(FALSE, 1, last[p].status, data[p], ParseOutcome(data[p]))]
    /\ ranges' = [ranges EXCEPT ![p] = RangesOf(data[p])]
    /\ pc' = [pc EXCEPT ![p] = "idle"]
    /\ data' = [data EXCEPT ![p] = NoFile]
    /\ UNCHANGED <<seen, catalog, out>>

New ==
    \E p \in Processes :
        \/ NewBegin(p)
        \/ readFromCacheOpen(p)
        \/ readFromCacheRead(p)
        \/ NewResponse(p)
        \/ NewWriteFile(p)

Next == New

Spec == Init /\ [][Next]_vars

\* The queries on a catalog that New has returned.
QueryInit ==
    /\ LoaderInit
    /\ catalog \in Catalogs
    /\ out = NoQuery

CallCheckAddress ==
    /\ \E address \in Queries :
        out' = QueryRecord("CheckAddress", address, catalog,
                           CheckAddress(catalog, address))
    /\ UNCHANGED <<cache, pc, data, ranges, last, seen, intact, catalog>>

CallCheckCIDR ==
    /\ \E cidr \in Queries :
        out' = QueryRecord("CheckCIDR", cidr, catalog, CheckCIDR(catalog, cidr))
    /\ UNCHANGED <<cache, pc, data, ranges, last, seen, intact, catalog>>

CallCheckServices ==
    /\ \E address \in Queries :
        out' = QueryRecord("CheckServices", address, catalog,
                           CheckServices(catalog, address))
    /\ UNCHANGED <<cache, pc, data, ranges, last, seen, intact, catalog>>

QueryNext == CallCheckAddress \/ CallCheckCIDR \/ CallCheckServices

QuerySpec == QueryInit /\ [][QueryNext]_vars

(***************************************************************************)
(* Vocabulary of the properties                                            *)
(***************************************************************************)
\* s is a well-formed host address / a well-formed CIDR.
WellFormedAddress(s) == ParseIP(s) # NilIP

WellFormedCIDR(s) == ~ParseCIDR(s).err

AllWellFormed(Prefixes) == \A k \in 1..Len(Prefixes) : WellFormedCIDR(Prefixes[k].IP)

\* The number after the '/' of a well-formed CIDR.
PrefixLength(s) == dtoi(SubSeq(s, IndexByte(s, "/") + 1, Len(s))).n

\* The address written before the '/' of a well-formed CIDR.
BaseAddress(s) == ParseIP(SubSeq(s, 1, IndexByte(s, "/") - 1))

\* Bit j (1 the most significant, 32 the least) of the 4 octets ip.
Bit(ip, j) == (ip[((j - 1) \div 8) + 1] \div (2 ^ (7 - ((j - 1) % 8)))) % 2

\* The address ip lies inside the network of the well-formed CIDR s: it agrees
\* with the base address on the first PrefixLength(s) bits.
InBlock(ip, s) ==
    \A j \in 1..PrefixLength(s) : Bit(ip, j) = Bit(BaseAddress(s), j)

\* The whole range of the well-formed CIDR q lies inside the network of s.
Enclosed(q, s) ==
    /\ PrefixLength(q) >= PrefixLength(s)
    /\ InBlock(BaseAddress(q), s)

\* Record p matches the well-formed query q in a service lookup: for a host
\* address, its network contains q; for a CIDR, the mask lengths are equal and
\* p is q's text or its network contains q's base address.
MatchesQuery(p, q) ==
    IF ContainsSlash(q)
    THEN /\ PrefixLength(p.IP) = PrefixLength(q)
         /\ (p.IP = q \/ InBlock(BaseAddress(q), p.IP))
    ELSE InBlock(ParseIP(q), p.IP)

MatchingRecords(Prefixes, q) == SelectSeq(Prefixes, LAMBDA p : MatchesQuery(p, q))

ServicesOf(records) == [k \in 1..Len(records) |-> records[k].Service]

(***************************************************************************)
(* Properties                                                              *)
(***************************************************************************)
\* C1: on a catalog of well-formed records and a well-formed host address,
\* CheckAddress returns, without error, true iff the address lies inside the
\* network of some record (false on the empty catalog).
C1_CheckAddressContainment ==
    (out.op = "CheckAddress" /\ AllWellFormed(out.Prefixes) /\ WellFormedAddress(out.arg))
    => /\ out.status = "ok"
       /\ out.bool = (\E k \in 1..Len(out.Prefixes) :
                        InBlock(ParseIP(out.arg), out.Prefixes[k].IP))

\* C1's case: the address is outside the first record and inside the second,
\* and CheckAddress has answered true.
C1_Witness ==
    /\ out.op = "CheckAddress"
    /\ AllWellFormed(out.Prefixes)
    /\ WellFormedAddress(out.arg)
    /\ Len(out.Prefixes) = 2
    /\ ~InBlock(ParseIP(out.arg), out.Prefixes[1].IP)
    /\ InBlock(ParseIP(out.arg), out.Prefixes[2].IP)
    /\ out.status = "ok"
    /\ out.bool

\* C2: whenever some record's network text is identical to the query,
\* CheckCIDR returns true, whatever the other records are.
C2_TextualMatchReturnsTrue ==
    (out.op = "CheckCIDR" /\ \E k \in 1..Len(out.Prefixes) : out.Prefixes[k].IP = out.arg)
    => (out.status = "ok" /\ out.bool)

\* C3: on a well-formed CIDR query, every service of CheckServices's result is
\* the service of a record with the query's mask length that matches it, and
\* the result is what it is without the well-formed records of any other mask
\* length.
C3_ServicesOnlyFromEqualMask ==
    (out.op = "CheckServices" /\ WellFormedCIDR(out.arg))
    => LET q     == out.arg
           other(p) == WellFormedCIDR(p.IP) /\ PrefixLength(p.IP) # PrefixLength(q)
           rest  == SelectSeq(out.Prefixes, LAMBDA p : ~other(p))
           r     == CheckServices(rest, q)
       IN  /\ \A j \in 1..Len(out.Services) :
                \E k \in 1..Len(out.Prefixes) :
                    /\ WellFormedCIDR(out.Prefixes[k].IP)
                    /\ PrefixLength(out.Prefixes[k].IP) = PrefixLength(q)
                    /\ out.Prefixes[k].Service = out.Services[j]
           /\ out.status = r.status
           /\ out.Region = r.Region
           /\ out.Services = r.Services

\* C3's case: a record of another mask length whose network contains the
\* query's base address and which names a service, and an empty result.
C3_Witness ==
    /\ out.op = "CheckServices"
    /\ WellFormedCIDR(out.arg)
    /\ \E k \in 1..Len(out.Prefixes) :
        /\ WellFormedCIDR(out.Prefixes[k].IP)
        /\ PrefixLength(out.Prefixes[k].IP) # PrefixLength(out.arg)
        /\ InBlock(BaseAddress(out.arg), out.Prefixes[k].IP)
        /\ out.Prefixes[k].Service # ""
    /\ out.status = "ok"
    /\ out.Services = <<>>
    /\ out.Region = ""

\* C4: CheckServices fails with an error on every query that is neither a
\* well-formed address nor a well-formed CIDR.
C4_MalformedQueryFails ==
    (out.op = "CheckServices" /\ ~WellFormedAddress(out.arg) /\ ~WellFormedCIDR(out.arg))
    => out.status = "error"

\* Process q has ended an invocation of New whose os.Stat found the cache
\* file holding bytes that parse: bytes that an invocation had fetched,
\* written and loaded with success.
FollowsSuccessfulFetch(q) ==
    /\ pc[q] = "idle"
    /\ last[q].op = "New"
    /\ seen[q] # NoFile
    /\ ~Unmarshal(seen[q]).err

\* The last invocation of q issued no request and returned the prefix list
\* that parsing bytes gives.
ReturnedFromCache(q, bytes) ==
    /\ last[q].useCache
    /\ last[q].gets = 0
    /\ last[q].err = "none"
    /\ ranges[q].loaded
    /\ ranges[q].Prefixes = Unmarshal(bytes).Prefixes

\* C5, as stated: when an invocation of New has fetched bytes B, succeeded and
\* written B to the cache file, an invocation that follows and finds the cache
\* file present issues no request and returns the prefix list that parsing B
\* gives.
C5_CacheRoundTripAsStated ==
    \A q \in Processes :
        FollowsSuccessfulFetch(q) => ReturnedFromCache(q, seen[q])

\* C5, amended: the same, for a following invocation during which no other
\* process truncates or writes the cache file.
C5_CacheRoundTrip ==
    \A q \in Processes :
        (FollowsSuccessfulFetch(q) /\ intact[q]) => ReturnedFromCache(q, seen[q])

\* C5's case: process p has fetched a catalog of MaxCatalog records and
\* written it, and q has then found it in the cache file, read it undisturbed
\* and returned it without a request.
C5_Witness ==
    \E p, q \in Processes :
        /\ p # q
        /\ pc[p] = "idle"
        /\ last[p].gets = 1
        /\ last[p].err = "none"
        /\ Len(last[p].data.prefixes) = MaxCatalog
        /\ FollowsSuccessfulFetch(q)
        /\ intact[q]
        /\ seen[q] = last[p].data
        /\ ReturnedFromCache(q, last[p].data)

\* Process p has ended an invocation of New that fetched a body and failed to
\* load it: the response was not 2xx or the body did not parse.
FetchedAndFailed(p) ==
    /\ pc[p] = "idle"
    /\ last[p].op = "New"
    /\ last[p].gets = 1
    /\ last[p].err # "transport"
    /\ (last[p].err = "json" \/ last[p].status \notin 200..299)

\* C6: a fetch that ends in a load failure never leaves its bytes in the cache
\* file, and no invocation fails on a cache file that holds the bytes of a
\* failed load.
C6_FailedLoadLeavesNoCache ==
    \A p, q \in Processes :
        FetchedAndFailed(p)
        => /\ cache # last[p].data
           /\ ~(last[q].useCache /\ last[q].err # "none" /\ last[q].data = last[p].data)

\* C7: on a catalog with malformed records and a well-formed host address,
\* CheckAddress returns, without error or abort, true iff the network of some
\* well-formed record contains the address.
C7_MalformedRecordsSkipped ==
    (out.op = "CheckAddress" /\ ~AllWellFormed(out.Prefixes) /\ WellFormedAddress(out.arg))
    => /\ out.status = "ok"
       /\ out.bool = (\E k \in 1..Len(out.Prefixes) :
                        /\ WellFormedCIDR(out.Prefixes[k].IP)
                        /\ InBlock(ParseIP(out.arg), out.Prefixes[k].IP))

\* C8: on a catalog of well-formed records and a well-formed CIDR query,
\* CheckCIDR returns true iff some record is the query's text or some record's
\* network contains the query's base address.
C8_FastPathHasNoEffect ==
    (out.op = "CheckCIDR" /\ AllWellFormed(out.Prefixes) /\ WellFormedCIDR(out.arg))
    => /\ out.status = "ok"
       /\ out.bool = (\E k \in 1..Len(out.Prefixes) :
                        \/ out.Prefixes[k].IP = out.arg
                        \/ InBlock(BaseAddress(out.arg), out.Prefixes[k].IP))

\* C9: on a catalog of well-formed records and a well-formed query,
\* CheckServices returns, without error, the services of all matching records
\* in catalog order and the region of the last of them, and the empty result
\* exactly when no record matches.
C9_AllMatchesLastRegion ==
    ( /\ out.op = "CheckServices"
      /\ AllWellFormed(out.Prefixes)
      /\ (WellFormedAddress(out.arg) \/ WellFormedCIDR(out.arg)) )
    => LET m == MatchingRecords(out.Prefixes, out.arg)
       IN  /\ out.status = "ok"
           /\ out.Services = ServicesOf(m)
           /\ out.Region = (IF Len(m) = 0 THEN "" ELSE m[Len(m)].Region)
           /\ (out.Region = "" /\ out.Services = <<>>) <=> (Len(m) = 0)

\* C10: on a catalog of well-formed records and a well-formed CIDR query that
\* is no record's text, CheckCIDR returns true only if the whole range of the
\* query is enclosed in some record's network.
C10_TrueOnlyIfEnclosed ==
    ( /\ out.op = "CheckCIDR"
      /\ AllWellFormed(out.Prefixes)
      /\ WellFormedCIDR(out.arg)
      /\ \A k \in 1..Len(out.Prefixes) : out.Prefixes[k].IP # out.arg
      /\ out.status = "ok"
      /\ out.bool )
    => \E k \in 1..Len(out.Prefixes) : Enclosed(out.arg, out.Prefixes[k].IP)

====
